---- MODULE Spec2Model ----
(***************************************************************************)
(* DevCommandHub: the VS Code client orchestrator (src/extension.ts), the  *)
(* command API with its two executors (src/backend/src/app.ts), the job    *)
(* store writes (services/supabase.ts), the GitHub Actions status mapping  *)
(* (services/githubActions.ts) and the confidence gate of the NLU parser   *)
(* (services/nluService.ts).                                               *)
(*                                                                         *)
(* One JavaScript event-loop turn (a handler up to its next await) is one  *)
(* action.  The server handles an HTTP request in the turn that sends it; *)
(* the answer, or the failure of the fetch, reaches the caller's           *)
(* continuation in a later turn.                                           *)
(***************************************************************************)
EXTENDS Integers, Sequences, FiniteSets, TLC

\* ------------------------------------------------------------------ bounds
\* commands the client accepts in one run (each creates at most one job)
MaxCmds == 2
\* refreshJob requests the page sends in one run
MaxRefresh == 1
\* poll chains one run can start: one per command, one per refresh
MaxChains == MaxCmds + MaxRefresh
\* attempt budget of one client poll chain (the code's default is 60)
maxAttempts == 2
\* poll budget of the server-side workflow poller (the code's value is 60)
maxPolls == 2
\* what the user and the environment do in one run, taken together: commands
\* sent, refresh requests, panel closes, faults
MaxEnvEvents == 3
\* the same in the runs checked for liveness
MaxFairEvents == 2
\* attempt numbers the error backoff is computed for
MaxBackoffAttempts == 60

NoJob == 0
JobIds == 1..MaxCmds
ChainIds == 1..MaxChains
RefreshIds == 1..MaxRefresh

TerminalStates == {"completed", "failed", "cancelled"}
JobStatuses == {"queued", "running"} \cup TerminalStates

\* ------------------------------------------------- githubActions.ts mapping
GAStatus == {"queued", "in_progress", "completed"}
GAConclusion == {"success", "failure", "cancelled", "timed_out", "action_required", "null"}
\* statuses and conclusions the workflow-runs API reports beyond the declared types
GAStatusOther == {"requested", "waiting", "pending"}
GAConclusionOther == {"neutral", "skipped", "stale"}
GAStatusAll == GAStatus \cup GAStatusOther
GAConclusionAll == GAConclusion \cup GAConclusionOther

\* the run states getRun is taken to return to the workflow poller: one for
\* each outcome of the mapping
PolledRuns == {<<"in_progress", "null">>, <<"completed", "success">>,
               <<"completed", "failure">>, <<"completed", "cancelled">>,
               <<"requested", "null">>}

mapGaToDchStatusNoCancel(gaStatus, gaConclusion) ==
    IF gaStatus = "queued" \/ gaStatus = "in_progress" THEN "running"
    ELSE IF gaStatus = "completed"
         THEN IF gaConclusion = "success" THEN "completed" ELSE "failed"
         ELSE "queued"

mapGaToDchStatus(gaStatus, gaConclusion) ==
    IF gaStatus = "queued" \/ gaStatus = "in_progress" THEN "running"
    ELSE IF gaStatus = "completed"
         THEN IF gaConclusion = "success" THEN "completed"
              ELSE IF gaConclusion = "cancelled" THEN "cancelled"
              ELSE "failed"
         ELSE "queued"

\* ---------------------------------------------- nluService.ts parseCommand
Actions == {"deploy", "rollback", "scale", "restart", "logs", "status"}
\* actions regexParse can return for a command
CoarseActions == {"deploy", "rollback", "unknown"}
\* classifier scores and thresholds, in hundredths
Scores == {0, 55, 70, 90}
Thresholds == {0, 60, 70}
\* what the classifier call gives: it throws, it ranks nothing, or its top entry
\* the top-ranked entries tried (all in Actions)
TopActions == {"deploy", "scale", "status"}
Classifier == {[kind |-> "throws"], [kind |-> "empty"]}
              \cup [kind : {"ranked"}, action : TopActions, score : Scores]

\* (top?.score ?? 0)
TopScore(classifier) == IF classifier.kind = "ranked" THEN classifier.score ELSE 0

\* parseCommand on the regexParse result coarse, as [action, source]; the
\* slots of the result are those of coarse on every path
parseCommand(coarse, hfApiKey, confidenceThreshold, classifier) ==
    IF ~hfApiKey
    THEN [action |-> coarse, source |-> "regex"]
    ELSE IF classifier.kind = "throws"
    THEN [action |-> coarse, source |-> "regex-error-fallback"]
    ELSE LET accept == TopScore(classifier) >= confidenceThreshold
         IN IF accept
            THEN IF classifier.kind = "ranked"
                 THEN [action |-> classifier.action, source |-> "hf:model"]
                 \* top is undefined: top.action throws inside the try block
                 ELSE [action |-> coarse, source |-> "regex-error-fallback"]
            ELSE [action |-> "unknown", source |-> "regex-fallback"]

\* =========================================================== command intake
\* A command text is modelled by what the patterns of regexParse and of
\* parseClientHints find in it:
\*   groups     the keyword groups of actionPatterns that have a word in it
\*   service    the service named in it ("none": none)
\*   envWord    the environment word in it ("none": none); envMarked: the word
\*              follows to/in/on/for or precedes env/environment
\*   num        the number in it (NoNumber: none); numCtx: the words around it
NoNumber == -1
EnvAliases == {"prod", "production", "stage", "staging", "dev", "development",
               "test", "testing", "qa", "uat"}
\* the words of regexParse's envPatterns
EnvWords == EnvAliases \cup {"local"}
\* services: known to both parsers, known to regexParse only, named after for/of
ServiceWords == {"api", "worker", "payments"}
NumCtxs == {"N replicas", "to N", "replicas N", "replicas=N"}

\* regexParse: the loop over envPatterns
regexEnvironment(command) ==
    IF command.envWord # "none" /\ command.envMarked THEN command.envWord ELSE "none"

\* regexParse: the loop over servicePatterns
regexService(command) ==
    IF command.service \in {"api", "worker"} THEN command.service ELSE "none"

\* regexParse: the loop over replicaPatterns; a number out of [0, 100] is
\* passed over and, being the only number, leaves replicas undefined
regexReplicas(command) ==
    LET matched == \/ command.numCtx \in {"N replicas", "to N", "replicas=N"}
                   \/ command.numCtx = "replicas N" /\ "scale" \in command.groups
    IN IF command.num # NoNumber /\ matched /\ command.num >= 0 /\ command.num <= 100
       THEN command.num
       ELSE NoNumber

\* regexParse: actionPatterns with scale tried before rollback
actionPatternsScaleFirst == <<"scale", "rollback", "restart", "logs", "status", "deploy">>

\* regexParse: actionPatterns, in the order the loop tries them
actionPatterns == <<"rollback", "scale", "restart", "logs", "status", "deploy">>

\* regexParse: the loop over actionPatterns
regexAction(command) ==
    LET hits == {i \in DOMAIN actionPatterns : actionPatterns[i] \in command.groups}
    IN IF hits = {} THEN "unknown"
       ELSE actionPatterns[CHOOSE i \in hits : \A m \in hits : i <= m]

\* regexParse; confidence in hundredths
regexParse(command) ==
    [action |-> regexAction(command),
     environment |-> regexEnvironment(command),
     service |-> regexService(command),
     replicas |-> regexReplicas(command),
     confidence |-> 50,
     source |-> "regex",
     error |-> FALSE]

\* what a caller of parseCommand gets when the promise rejects
Raised == [action |-> "exception", environment |-> "none", service |-> "none",
           replicas |-> NoNumber, confidence |-> 0, source |-> "none", error |-> TRUE]

\* parseCommand with no catch block around the classifier call
parseWithNLUNoCatch(command, hfApiKey, confidenceThreshold, classifier) ==
    LET coarse == regexParse(command)
        r == parseCommand(coarse.action, hfApiKey, confidenceThreshold, classifier)
    IN IF r.source = "regex-error-fallback" THEN Raised
       ELSE IF r.source = "regex" THEN coarse
       ELSE [coarse EXCEPT !.action = r.action, !.source = r.source,
                           !.confidence = TopScore(classifier)]

\* parseCommand, the whole intent: the slots are regexParse's on every path
parseWithNLU(command, hfApiKey, confidenceThreshold, classifier) ==
    LET coarse == regexParse(command)
        r == parseCommand(coarse.action, hfApiKey, confidenceThreshold, classifier)
    IN IF r.source = "regex" THEN coarse
       ELSE IF r.source = "regex-error-fallback"
       THEN [coarse EXCEPT !.source = r.source, !.error = TRUE]
       ELSE [coarse EXCEPT !.action = r.action, !.source = r.source,
                           !.confidence = TopScore(classifier)]

\* parseClientHints (app.ts): environment; stage, testing, uat and local are
\* not in its patterns
hintEnvironment(command) ==
    LET w == command.envWord
    IN IF w \in {"prod", "production"} THEN "production"
       ELSE IF w = "staging" THEN "staging"
       ELSE IF w \in {"dev", "development"} THEN "development"
       ELSE IF w = "test" THEN "test"
       ELSE IF w = "qa" THEN "qa"
       ELSE "none"

\* the digits (\d{1,3}) takes of a number with no word boundary after it
FirstThreeDigits(n) == IF n < 1000 THEN n ELSE n \div 10

\* parseClientHints: replicas (m1, m2, m3); no range test
hintReplicas(command) ==
    IF command.num = NoNumber THEN NoNumber
    ELSE IF command.numCtx \in {"replicas N", "replicas=N"} THEN FirstThreeDigits(command.num)
    ELSE IF command.numCtx = "to N" /\ command.num < 1000 THEN command.num
    ELSE NoNumber

\* parseClientHints: service (s1, s2, s3)
hintService(command) ==
    IF command.service \in {"api", "payments"} THEN command.service ELSE "none"

parseClientHints(command) ==
    [environment |-> hintEnvironment(command),
     service |-> hintService(command),
     replicas |-> hintReplicas(command)]

\* POST /api/commands: mergedIntent
mergedIntent(parsedIntent, clientHints) ==
    [parsedIntent EXCEPT
       !.environment = IF clientHints.environment # "none" /\ parsedIntent.environment = "none"
                       THEN clientHints.environment ELSE @,
       !.service = IF clientHints.service # "none" /\ parsedIntent.service = "none"
                   THEN clientHints.service ELSE @,
       !.replicas = IF clientHints.replicas # NoNumber THEN clientHints.replicas ELSE @]

\* slotOverrides that only fill the slots the parse left empty
applyOverridesIfUnset(intent, overrides) ==
    [intent EXCEPT
       !.service = IF overrides.service # "none" /\ @ = "none" THEN overrides.service ELSE @,
       !.environment = IF overrides.environment # "none" /\ @ = "none"
                       THEN overrides.environment ELSE @,
       !.replicas = IF overrides.replicas # NoNumber /\ @ = NoNumber
                    THEN overrides.replicas ELSE @]

\* POST /api/commands: slotOverrides applied
applyOverrides(intent, overrides) ==
    [intent EXCEPT
       !.service = IF overrides.service # "none" THEN overrides.service ELSE @,
       !.environment = IF overrides.environment # "none" THEN overrides.environment ELSE @,
       !.replicas = IF overrides.replicas # NoNumber THEN overrides.replicas ELSE @]

\* validateIntent of the Slot Validator: the required fields that are missing
validateIntent(intent) ==
    LET noService == IF intent.service = "none" THEN {"service"} ELSE {}
        missing ==
          IF intent.action = "deploy"
          THEN noService \cup (IF intent.environment = "none" THEN {"environment"} ELSE {})
          ELSE IF intent.action = "scale"
          THEN noService \cup (IF intent.replicas < 0 \/ intent.replicas > 100
                               THEN {"replicas"} ELSE {})
          ELSE IF intent.action \in {"logs", "rollback", "status", "restart"}
          THEN noService
          ELSE {}
    IN [ok |-> missing = {}, missing |-> missing]

\* commandParser.ts normalizeEnvironment
normalizeEnvironment(env) ==
    IF env \in {"prod", "production"} THEN "production"
    ELSE IF env \in {"stage", "staging"} THEN "staging"
    ELSE IF env \in {"dev", "develop", "development"} THEN "development"
    ELSE IF env \in {"test", "testing"} THEN "test"
    ELSE env

\* CommandParser.validateIntent without the default branch of its switch
commandParserValidateIntentNoDefault(intent) ==
    [valid |-> IF intent.action = "deploy"
               THEN intent.service # "none" /\ intent.environment # "none"
               ELSE IF intent.action = "scale"
               THEN intent.service # "none" /\ intent.replicas >= 0 /\ intent.replicas <= 100
               ELSE IF intent.action \in {"logs", "rollback", "status", "restart"}
               THEN intent.service # "none"
               ELSE TRUE,
     intent |-> intent]

\* CommandParser.validateIntent: the verdict and the intent as it leaves it
\* (the method assigns intent.environment)
commandParserValidateIntent(intent) ==
    IF intent.action = "deploy"
    THEN IF intent.service = "none" \/ intent.environment = "none"
         THEN [valid |-> FALSE, intent |-> intent]
         ELSE [valid |-> TRUE,
               intent |-> [intent EXCEPT !.environment = normalizeEnvironment(@)]]
    ELSE IF intent.action = "scale"
    THEN [valid |-> intent.service # "none" /\ intent.replicas >= 0 /\ intent.replicas <= 100,
          intent |-> intent]
    ELSE IF intent.action \in {"logs", "rollback", "status", "restart"}
    THEN IF intent.service = "none"
         THEN [valid |-> FALSE, intent |-> intent]
         ELSE [valid |-> TRUE,
               intent |-> [intent EXCEPT !.environment = normalizeEnvironment(@)]]
    ELSE [valid |-> FALSE, intent |-> intent]

VARIABLES
    \* ---- server process (app.ts) and job store
    USE_GITHUB_ACTIONS,   \* process.env.USE_GITHUB_ACTIONS === 'true'
    GITHUB_API_KEY,       \* process.env.GITHUB_API_KEY is set
    jobs,                 \* the jobs table: job id -> row
    writes,               \* store updates issued by the simulation timers, not yet applied
    simTimers,            \* job id -> the two timers of simulateJobExecution
    jobSimulations,       \* keys of the jobSimulations map
    ghExec,               \* job id -> position of executeWithGitHubActions / pollGitHubWorkflow
    githubJobTracking,    \* keys of the githubJobTracking map
    terminalWrites,       \* job id -> updateJobStatus calls with a terminal status so far
    \* ---- client (DevCommandHubProvider)
    activated,            \* the extension is active (provider not yet disposed)
    panel,                \* this.panel is defined
    pollingJobs,          \* this.pollingJobs
    isProcessingCommand,  \* this.isProcessingCommand
    currentJobId,         \* this.currentJobId (NoJob is null)
    cmds,                 \* handleDevCommand invocations: command number -> position
    chains,               \* poll closures of startJobPolling: chain id -> position
    refreshes,            \* refreshJobStatus invocations: id -> position
    webview,              \* what the panel's page shows: job cards, a retry button
    out,                  \* the events the last turn posted to the page
    \* ---- calls of the pure functions
    gaRun,                \* a workflow run as <<status, conclusion>>
    dch,                  \* mapGaToDchStatus of gaRun once computed
    nluCall,              \* the inputs of one parseCommand call
    nluResult,            \* what the call returned
    postReq,              \* a request to POST /api/commands
    postRes,              \* the handler's position on it and its response
    backoff,              \* a failed poll: its attempt number, the delay of the next
    \* ---- environment
    faults,               \* failed fetches, store errors and API errors so far
    closes                \* times the user closed the panel so far

serverVars == <<USE_GITHUB_ACTIONS, GITHUB_API_KEY, jobs, writes, simTimers,
                jobSimulations, ghExec, githubJobTracking, terminalWrites>>
clientVars == <<activated, panel, pollingJobs, isProcessingCommand, currentJobId,
                cmds, chains, refreshes, webview>>
pureVars == <<gaRun, dch, nluCall, nluResult, postReq, postRes, backoff>>
envVars == <<faults, closes>>
vars == <<serverVars, clientVars, out, pureVars, envVars>>

\* ---------------------------------------------------- environment bounds
\* what the user and the environment did so far
EnvEvents == Cardinality({k \in JobIds : cmds[k].pc # "idle"})
             + Cardinality({r \in RefreshIds : refreshes[r].pc # "free"})
             + closes + faults
B(ok) == IF ok THEN 0 ELSE 1
\* the turn is n more user events and f more faults
Env(n, f) ==
    /\ EnvEvents + n + f <= MaxEnvEvents
    /\ faults' = faults + f

\* --------------------------------------------------------------- job store
\* no command text, no intent
NoCommand == [groups |-> {}, service |-> "none", envWord |-> "none", envMarked |-> FALSE,
              num |-> NoNumber, numCtx |-> "none"]
NoIntent == [action |-> "none", environment |-> "none", service |-> "none",
             replicas |-> NoNumber, confidence |-> 0, source |-> "none", error |-> FALSE]

\* a row of the jobs table (interface Job); timestamps and optional columns are
\* kept as set / not set, the output array by the name of its content
NoRow == [status |-> "none", started_at |-> FALSE, completed_at |-> FALSE,
          error_message |-> FALSE, external_job_id |-> FALSE, output |-> "none",
          user_id |-> "none", original_command |-> NoCommand,
          parsed_intent |-> NoIntent, job_type |-> "none"]

\* SupabaseService.createJob: the inserted row
createJob(jobData) ==
    [NoRow EXCEPT !.status = "queued", !.output = "empty",
                  !.user_id = jobData.user_id,
                  !.original_command = jobData.original_command,
                  !.parsed_intent = jobData.parsed_intent,
                  !.job_type = jobData.job_type]

\* the jobData of the POST handler for the command the panel sends, here
\* 'deploy api to production' for every accepted command
SentCommand == [NoCommand EXCEPT !.groups = {"deploy"}, !.service = "api",
                                 !.envWord = "production", !.envMarked = TRUE]
SentJobData ==
    LET intent == commandParserValidateIntent(
                      mergedIntent(regexParse(SentCommand), parseClientHints(SentCommand))).intent
    IN [user_id |-> "user", original_command |-> SentCommand,
        parsed_intent |-> intent, job_type |-> intent.action]

\* the output arrays the executors write, by the name the rows keep them
\* under, line by line (a template line stands for its filled-in text)
OutputLines(output) ==
    LET baseOutput == <<"Starting job execution...", "Action: ", "Service: ", "Environment: ">>
        dispatched == <<"GitHub Actions workflow dispatched successfully", "Workflow: ">>
    IN CASE output = "starting" -> baseOutput
         [] output = "success" ->
               baseOutput \o <<"", "Executing command...", "action steps", "", "succeeded">>
         [] output = "error" ->
               baseOutput \o <<"", "Executing command...", "Attempting operation...",
                               "Error: ", "", "Troubleshooting steps:", "operation failed">>
         [] output = "dispatched" ->
               dispatched \o <<"Action: ", "Service: ", "Environment: ",
                               "Waiting for workflow to start...">>
         [] output = "run_found" ->
               dispatched \o <<"Run ID: ", "Status: ", "Action: ", "Service: ",
                               "Environment: ", "View workflow: ">>
         [] output = "run_not_found" ->
               dispatched \o <<"Note: Could not locate specific workflow run for tracking",
                               "Check GitHub Actions tab for workflow status">>
         [] output = "timeout" ->
               <<"Workflow execution timeout", "Last known status: ", "View workflow: ">>
         [] output = "workflow_final" ->
               <<"GitHub Actions workflow ", "Final status: ", "Conclusion: ", "Started: ",
                 "Completed: ", "View workflow: ">>
         [] output = "dispatch_error" ->
               <<"Failed to execute via GitHub Actions", "Error: ",
                 "Please check your GitHub token and repository configuration">>
         [] OTHER -> <<>>

\* SupabaseService.updateJobStatus: the column values it sends
updateData(status, additionalData) ==
    LET stamp == IF status = "running" THEN {"started_at"}
                 ELSE IF status \in TerminalStates THEN {"completed_at"}
                 ELSE {}
    IN [f \in {"status"} \cup DOMAIN additionalData \cup stamp |->
           IF f = "status" THEN status
           ELSE IF f \in stamp THEN TRUE
           ELSE additionalData[f]]

\* an update that replaces the row: the columns it does not send are reset
applyUpdateWholeRow(row, upd) ==
    [f \in DOMAIN row |-> IF f \in DOMAIN upd THEN upd[f] ELSE NoRow[f]]

\* the row after .update(updateData).eq('id', jobId)
applyUpdate(row, upd) ==
    [f \in DOMAIN row |-> IF f \in DOMAIN upd THEN upd[f] ELSE row[f]]

\* an awaited updateJobStatus call; ok = FALSE is a store error (the call returns false)
updateJobStatus(j, status, additionalData, ok) ==
    /\ jobs' = IF ok
               THEN [jobs EXCEPT ![j] = applyUpdate(jobs[j], updateData(status, additionalData))]
               ELSE jobs
    /\ terminalWrites' = IF status \in TerminalStates
                         THEN [terminalWrites EXCEPT ![j] = @ + 1]
                         ELSE terminalWrites

\* ------------------------------------------------------- simulated executor
NoTimers == [runningTimeout |-> "none", completionTimeout |-> "none"]

\* a simulateJobExecution that has run both timers out when it returns
simulateJobExecutionAwaited(j) ==
    /\ simTimers' = [simTimers EXCEPT ![j] =
                        [runningTimeout |-> "fired", completionTimeout |-> "fired"]]
    /\ UNCHANGED <<jobSimulations, ghExec, githubJobTracking, writes, terminalWrites>>

\* simulateJobExecution: both timers are set, the completion timer is registered
simulateJobExecution(j) ==
    /\ simTimers' = [simTimers EXCEPT ![j] =
                        [runningTimeout |-> "pending", completionTimeout |-> "pending"]]
    /\ jobSimulations' = jobSimulations \cup {j}
    /\ UNCHANGED <<ghExec, githubJobTracking, writes, terminalWrites>>

\* the runningTimeout callback (2000-3000 ms): issues the running write
SimRunningTimeout(j) ==
    /\ simTimers[j].runningTimeout = "pending"
    /\ simTimers' = [simTimers EXCEPT ![j].runningTimeout = "fired"]
    /\ writes' = writes \cup
          {[job |-> j, from |-> "runningTimeout",
            upd |-> updateData("running", [started_at |-> TRUE, output |-> "starting"])]}
    /\ UNCHANGED <<USE_GITHUB_ACTIONS, GITHUB_API_KEY, jobs, jobSimulations, ghExec,
                   githubJobTracking, terminalWrites, clientVars, pureVars, envVars>>
    /\ out' = <<>>

\* the completionTimeout callback (6000-10000 ms, so after the running timer):
\* issues the terminal write
SimCompletionTimeout(j) ==
    /\ simTimers[j].completionTimeout = "pending"
    /\ simTimers[j].runningTimeout = "fired"
    /\ simTimers' = [simTimers EXCEPT ![j].completionTimeout = "fired"]
    /\ \E isSuccess \in BOOLEAN :
          writes' = writes \cup
             {[job |-> j, from |-> "completionTimeout",
               upd |-> IF isSuccess
                       THEN updateData("completed", [completed_at |-> TRUE, output |-> "success"])
                       ELSE updateData("failed", [completed_at |-> TRUE, error_message |-> TRUE,
                                                   output |-> "error"])]}
    /\ terminalWrites' = [terminalWrites EXCEPT ![j] = @ + 1]
    /\ UNCHANGED <<USE_GITHUB_ACTIONS, GITHUB_API_KEY, jobs, jobSimulations, ghExec,
                   githubJobTracking, clientVars, pureVars, envVars>>
    /\ out' = <<>>

\* the store applies (or rejects) one update issued by a timer callback; the
\* completion callback then resumes and removes its jobSimulations entry
StoreWrite(w) ==
    /\ w \in writes
    /\ writes' = writes \ {w}
    /\ \E ok \in BOOLEAN :
          /\ jobs' = IF ok THEN [jobs EXCEPT ![w.job] = applyUpdate(jobs[w.job], w.upd)]
                     ELSE jobs
          /\ Env(0, B(ok))
    /\ jobSimulations' = IF w.from = "completionTimeout"
                         THEN jobSimulations \ {w.job} ELSE jobSimulations
    /\ UNCHANGED <<USE_GITHUB_ACTIONS, GITHUB_API_KEY, simTimers, ghExec,
                   githubJobTracking, terminalWrites, clientVars, pureVars, closes>>
    /\ out' = <<>>

\* -------------------------------------------------------- workflow executor
NoGh == [pc |-> "none", polls |-> 0]

\* executeWithGitHubActions is called: authenticate and dispatch are pending
executeWithGitHubActions(j) ==
    /\ ghExec' = [ghExec EXCEPT ![j] = [NoGh EXCEPT !.pc = "dispatch"]]
    /\ UNCHANGED <<simTimers, jobSimulations, githubJobTracking, writes, terminalWrites>>

\* authenticate + dispatch return or throw, then the awaited status write
GhDispatch(j) ==
    /\ ghExec[j].pc = "dispatch"
    /\ \E dispatched \in BOOLEAN, ok \in BOOLEAN :
          /\ Env(0, B(dispatched) + B(ok))
          /\ IF dispatched
             THEN /\ updateJobStatus(j, "running",
                                      [started_at |-> TRUE, output |-> "dispatched"], ok)
                  /\ ghExec' = [ghExec EXCEPT ![j].pc = "findRun"]
             ELSE /\ updateJobStatus(j, "failed",
                                      [completed_at |-> TRUE, error_message |-> TRUE,
                                       output |-> "dispatch_error"], ok)
                  /\ ghExec' = [ghExec EXCEPT ![j].pc = "done"]
    /\ UNCHANGED <<USE_GITHUB_ACTIONS, GITHUB_API_KEY, writes, simTimers, jobSimulations,
                   githubJobTracking, clientVars, pureVars, closes>>
    /\ out' = <<>>

\* findRunByName returned the run: it is registered, the row gets its id and
\* pollGitHubWorkflow is started
findRunByNameFound(j, ok) ==
    /\ githubJobTracking' = githubJobTracking \cup {j}
    /\ updateJobStatus(j, "running", [external_job_id |-> TRUE, output |-> "run_found"], ok)
    /\ ghExec' = [ghExec EXCEPT ![j].pc = "pollTimer"]

\* a catch (findError) that fails the job as the outer catch does
findRunByNameGaveUpFails(j, ok) ==
    /\ githubJobTracking' = githubJobTracking
    /\ updateJobStatus(j, "failed", [completed_at |-> TRUE, error_message |-> TRUE,
                                     output |-> "dispatch_error"], ok)
    /\ ghExec' = [ghExec EXCEPT ![j].pc = "done"]

\* findRunByName threw after its tries: catch (findError) writes a note and
\* the executor returns
findRunByNameGaveUp(j, ok) ==
    /\ githubJobTracking' = githubJobTracking
    /\ updateJobStatus(j, "running", [output |-> "run_not_found"], ok)
    /\ ghExec' = [ghExec EXCEPT ![j].pc = "done"]

\* findRunByName returns the run or gives up after its tries
GhFindRun(j) ==
    /\ ghExec[j].pc = "findRun"
    /\ \E found \in BOOLEAN, ok \in BOOLEAN :
          /\ Env(0, B(ok))
          /\ IF found THEN findRunByNameFound(j, ok) ELSE findRunByNameGaveUp(j, ok)
    /\ UNCHANGED <<USE_GITHUB_ACTIONS, GITHUB_API_KEY, writes, simTimers, jobSimulations,
                   clientVars, pureVars, closes>>
    /\ out' = <<>>

\* one tick of pollGitHubWorkflow.poll, on the run state getRun returns
pollGitHubWorkflowRun(j, run, ok) ==
    LET polls == ghExec[j].polls + 1
        dchStatus == mapGaToDchStatus(run[1], run[2])
    IN IF dchStatus = "running"
       THEN IF polls < maxPolls
            THEN /\ ghExec' = [ghExec EXCEPT ![j] = [pc |-> "pollTimer", polls |-> polls]]
                 /\ UNCHANGED <<jobs, githubJobTracking, terminalWrites>>
            ELSE /\ updateJobStatus(j, "failed", [completed_at |-> TRUE, error_message |-> TRUE,
                                                  output |-> "timeout"], ok)
                 /\ githubJobTracking' = githubJobTracking \ {j}
                 /\ ghExec' = [ghExec EXCEPT ![j] = [pc |-> "done", polls |-> polls]]
       ELSE /\ updateJobStatus(j, dchStatus,
                 IF dchStatus = "completed"
                 THEN [completed_at |-> TRUE, output |-> "workflow_final"]
                 ELSE [completed_at |-> TRUE, error_message |-> TRUE, output |-> "workflow_final"],
                 ok)
            /\ githubJobTracking' = githubJobTracking \ {j}
            /\ ghExec' = [ghExec EXCEPT ![j] = [pc |-> "done", polls |-> polls]]

\* a poller that gives up with the failed write and schedules itself again
pollGitHubWorkflowErrorKeepsPolling(j, ok) ==
    LET polls == ghExec[j].polls + 1
    IN IF polls < maxPolls
       THEN /\ ghExec' = [ghExec EXCEPT ![j].polls = polls]
            /\ UNCHANGED <<jobs, githubJobTracking, terminalWrites>>
       ELSE /\ updateJobStatus(j, "failed", [completed_at |-> TRUE, error_message |-> TRUE], ok)
            /\ githubJobTracking' = githubJobTracking \ {j}
            /\ ghExec' = ghExec

\* one tick of pollGitHubWorkflow.poll when getRun throws
pollGitHubWorkflowError(j, ok) ==
    LET polls == ghExec[j].polls + 1
    IN IF polls < maxPolls
       THEN /\ ghExec' = [ghExec EXCEPT ![j].polls = polls]
            /\ UNCHANGED <<jobs, githubJobTracking, terminalWrites>>
       ELSE /\ updateJobStatus(j, "failed", [completed_at |-> TRUE, error_message |-> TRUE], ok)
            /\ githubJobTracking' = githubJobTracking \ {j}
            /\ ghExec' = [ghExec EXCEPT ![j].pc = "done", ![j].polls = polls]

GhPoll(j) ==
    /\ ghExec[j].pc = "pollTimer"
    /\ \E ok \in BOOLEAN :
          \/ /\ \E run \in PolledRuns : pollGitHubWorkflowRun(j, run, ok)
             /\ Env(0, B(ok))
          \/ /\ pollGitHubWorkflowError(j, ok)
             /\ Env(0, 1 + B(ok))
    /\ UNCHANGED <<USE_GITHUB_ACTIONS, GITHUB_API_KEY, writes, simTimers, jobSimulations,
                   clientVars, pureVars, closes>>
    /\ out' = <<>>

\* ------------------------------------------------------------ client state
Ev(command, jobId, status) == [command |-> command, jobId |-> jobId, status |-> status]

NoCmd == [pc |-> "idle", resp |-> "none"]
DoneCmd == [pc |-> "done", resp |-> "none"]
NoChain == [job |-> NoJob, attempts |-> 0, pc |-> "free", resp |-> "none", stale |-> FALSE]
NoRefresh == [job |-> NoJob, pc |-> "free", resp |-> "none"]
DoneRefresh == [job |-> NoJob, pc |-> "done", resp |-> "none"]

FreeChains == {c \in ChainIds : chains[c].pc = "free"}
FreeRefreshes == {r \in RefreshIds : refreshes[r].pc = "free"}
IdleCmds == {k \in JobIds : cmds[k].pc = "idle"}
Lowest(S) == CHOOSE x \in S : \A y \in S : x <= y

\* the page of a new panel: no job card, no retry button
EmptyPage == [cards |-> [j \in JobIds |-> "none"], retry |-> FALSE]

\* the page's message handler on one event: addDevResponse adds a card with
\* the job's status badge (job_created) or a retry button (error);
\* updateJobStatusInChat sets the badge of the job's card, if there is one,
\* and adds a retry button when the status is 'failed'
PageOn(w, ev) ==
    IF ev.command = "addDevResponse"
    THEN IF ev.status = "job_created"
         THEN [w EXCEPT !.cards[ev.jobId] = IF @ = "none" THEN "queued" ELSE @]
         ELSE [w EXCEPT !.retry = TRUE]
    ELSE IF ev.command = "updateJobStatus" /\ w.cards[ev.jobId] # "none"
    THEN [cards |-> [w.cards EXCEPT ![ev.jobId] = ev.status],
          retry |-> w.retry \/ ev.status = "failed"]
    ELSE w

RECURSIVE WebviewAfter(_, _)
WebviewAfter(w, evs) ==
    IF evs = <<>> THEN w ELSE WebviewAfter(PageOn(w, Head(evs)), Tail(evs))

\* every client turn ends with what it posted: postMessage delivers the
\* events of the turn to the page in order
Posts(events) ==
    /\ out' = events
    /\ webview' = IF panel THEN WebviewAfter(webview, events) ELSE webview

\* ---------------------------------------------------- startJobPolling
\* a startJobPolling that registers the job and sets no timer
startJobPollingNoTimer(jobId, pj, ch) == <<pj \cup {jobId}, ch>>

\* startJobPolling(jobId): the state it leaves, as <<pollingJobs, chains>>;
\* a new chain is a pending setTimeout(poll, 2000)
startJobPolling(jobId, pj, ch) ==
    IF jobId \in pj
    THEN <<pj, ch>>
    ELSE LET c == Lowest({x \in ChainIds : ch[x].pc = "free"})
         IN <<pj \cup {jobId}, [ch EXCEPT ![c] = [NoChain EXCEPT !.job = jobId, !.pc = "timer"]]>>

\* a chain slot is left for the chain this turn may start
CanStartChain == FreeChains # {}

\* ------------------------------------------------ POST /api/commands
\* the handler, on the request of handleDevCommand invocation k.  The client
\* sends no X-GitHub-Token header, so githubToken is the environment's key.
\* validation is the outcome of parse + merge + validateIntent on the body
\* (a request with slotOverrides.service is not missing the service): a 422
\* answer is "missing_service" when its missing list has the service and
\* "missing_other" when it has not;
\* delivered = FALSE: the answer does not reach the client, its fetch rejects.
\* The client then awaits its first fetch ("replied") or its retry ("retried").
PostCommands(k, slotOverrides, delivered, n) ==
    LET githubToken == GITHUB_API_KEY
        reply(r) == [cmds EXCEPT ![k] = [pc |-> IF slotOverrides THEN "retried" ELSE "replied",
                                         resp |-> IF delivered THEN r ELSE "error"]]
    IN IF USE_GITHUB_ACTIONS /\ ~githubToken
       THEN /\ cmds' = reply("error")
            /\ Env(n, B(delivered))
            /\ UNCHANGED <<jobs, writes, simTimers, jobSimulations, ghExec, githubJobTracking, terminalWrites>>
       ELSE \E validation \in {"ok", "missing_service", "missing_other", "invalid"},
               inserted \in BOOLEAN :
               /\ validation = "missing_service" => ~slotOverrides
               /\ Env(n, B(delivered) + B(inserted))
               /\ IF validation = "ok" /\ inserted
                  THEN /\ jobs' = [jobs EXCEPT ![k] = createJob(SentJobData)]
                       /\ IF USE_GITHUB_ACTIONS /\ githubToken
                          THEN executeWithGitHubActions(k)
                          ELSE simulateJobExecution(k)
                       /\ cmds' = reply("created")
                  ELSE /\ cmds' = reply(IF validation = "invalid" THEN "error" ELSE validation)
                       /\ UNCHANGED <<jobs, writes, simTimers, jobSimulations, ghExec,
                                      githubJobTracking, terminalWrites>>

\* the fetch of sendCommandToAPI: the request reaches the server, or the
\* fetch rejects before it does
sendCommandToAPI(k, slotOverrides) ==
    \/ \E delivered \in BOOLEAN :
          PostCommands(k, slotOverrides, delivered, IF slotOverrides THEN 0 ELSE 1)
    \/ /\ cmds' = [cmds EXCEPT ![k] = [pc |-> IF slotOverrides THEN "retried" ELSE "replied",
                                       resp |-> "error"]]
       /\ Env(IF slotOverrides THEN 0 ELSE 1, 1)
       /\ UNCHANGED <<jobs, writes, simTimers, jobSimulations, ghExec, githubJobTracking, terminalWrites>>

\* ------------------------------------------------------ handleDevCommand
\* handleDevCommand up to its await of sendCommandToAPI's fetch
handleDevCommandNoGuard ==
    /\ IdleCmds # {}
    /\ isProcessingCommand' = TRUE
    /\ sendCommandToAPI(Lowest(IdleCmds), FALSE)
    /\ Posts(<<Ev("setLoadingState", NoJob, "true"), Ev("showTyping", NoJob, "none")>>)
    /\ UNCHANGED <<USE_GITHUB_ACTIONS, GITHUB_API_KEY, activated, panel, pollingJobs,
                   currentJobId, chains, refreshes, pureVars, closes>>

handleDevCommand ==
    IF isProcessingCommand
    THEN /\ Posts(<<Ev("showBusyMessage", NoJob, "none")>>)
         /\ UNCHANGED <<serverVars, activated, panel, pollingJobs, isProcessingCommand,
                        currentJobId, cmds, chains, refreshes, pureVars, envVars>>
    ELSE /\ IdleCmds # {}
         /\ isProcessingCommand' = TRUE
         /\ sendCommandToAPI(Lowest(IdleCmds), FALSE)
         /\ Posts(<<Ev("setLoadingState", NoJob, "true"), Ev("showTyping", NoJob, "none")>>)
         /\ UNCHANGED <<USE_GITHUB_ACTIONS, GITHUB_API_KEY, activated, panel, pollingJobs,
                        currentJobId, chains, refreshes, pureVars, closes>>

\* message 'sendDevCommand' (its text is never empty: handleSend checks it)
SendDevCommand ==
    /\ panel
    /\ handleDevCommand

\* message 'retryJob' from a retry button (its originalCommand is never empty)
RetryJob ==
    /\ panel
    /\ webview.retry
    /\ IF isProcessingCommand
       THEN /\ Posts(<<Ev("showBusyMessage", NoJob, "none")>>)
            /\ UNCHANGED <<serverVars, activated, panel, pollingJobs, isProcessingCommand,
                           currentJobId, cmds, chains, refreshes, pureVars, envVars>>
       ELSE handleDevCommand

\* a catch block that reports the error and keeps the lock
handleDevCommandCatchKeepsLock ==
    /\ UNCHANGED <<isProcessingCommand, currentJobId>>
    /\ Posts(IF panel THEN <<Ev("addDevResponse", NoJob, "error"),
                             Ev("setLoadingState", NoJob, "false")>>
              ELSE <<>>)

\* the catch block of handleDevCommand; with this.panel undefined its first
\* postMessage throws and the rest of the block does not run
handleDevCommandCatch ==
    IF panel
    THEN /\ isProcessingCommand' = FALSE
         /\ currentJobId' = NoJob
         /\ Posts(<<Ev("addDevResponse", NoJob, "error"),
                    Ev("setLoadingState", NoJob, "false")>>)
    ELSE /\ UNCHANGED <<isProcessingCommand, currentJobId>>
         /\ Posts(<<>>)

\* sendCommandToAPI on a first answer that is not ok: the slot-fill prompt is
\* offered for 422 MISSING_SLOT with missing.includes('service'), every other
\* answer is thrown as 'API request failed'
offersPromptOnAnyFailure(resp) == resp # "created"

offersPrompt(resp) == resp = "missing_service"

\* handleDevCommand after sendCommandToAPI's fetch settled; an answer to the
\* retry that is not ok is thrown (if (!retryRes.ok) throw)
HandleDevCommandResume(k) ==
    /\ cmds[k].pc \in {"replied", "retried"}
    /\ \/ /\ cmds[k].resp = "created"
          /\ cmds' = [cmds EXCEPT ![k] = DoneCmd]
          /\ currentJobId' = k
          /\ IF panel
             THEN /\ k \notin pollingJobs => CanStartChain
                  /\ LET started == startJobPolling(k, pollingJobs, chains)
                     IN /\ pollingJobs' = started[1]
                        /\ chains' = started[2]
                  /\ Posts(<<Ev("addDevResponse", k, "job_created")>>)
             ELSE /\ UNCHANGED <<pollingJobs, chains>>
                  /\ Posts(<<>>)
          /\ UNCHANGED isProcessingCommand
       \/ /\ cmds[k].resp # "created"
          /\ cmds[k].pc = "replied" /\ offersPrompt(cmds[k].resp)
          /\ cmds' = [cmds EXCEPT ![k] = [pc |-> "prompt", resp |-> "none"]]
          /\ Posts(<<>>)
          /\ UNCHANGED <<pollingJobs, chains, isProcessingCommand, currentJobId>>
       \/ /\ cmds[k].resp # "created"
          /\ ~(cmds[k].pc = "replied" /\ offersPrompt(cmds[k].resp))
          /\ cmds' = [cmds EXCEPT ![k] = DoneCmd]
          /\ handleDevCommandCatch
          /\ UNCHANGED <<pollingJobs, chains>>
    /\ UNCHANGED <<serverVars, activated, panel, refreshes, pureVars, envVars>>

\* the slot-fill prompt of sendCommandToAPI settles: a service was picked and
\* the retry POST is sent
SlotPromptPicked(k) ==
    /\ cmds[k].pc = "prompt"
    /\ sendCommandToAPI(k, TRUE)
    /\ Posts(<<>>)
    /\ UNCHANGED <<USE_GITHUB_ACTIONS, GITHUB_API_KEY, activated, panel, pollingJobs,
                   isProcessingCommand, currentJobId, chains, refreshes, pureVars, closes>>

\* ... or the prompt was dismissed: 'User cancelled slot fill' is thrown
SlotPromptCancelled(k) ==
    /\ cmds[k].pc = "prompt"
    /\ cmds' = [cmds EXCEPT ![k] = DoneCmd]
    /\ handleDevCommandCatch
    /\ UNCHANGED <<serverVars, activated, panel, pollingJobs, chains, refreshes, pureVars, envVars>>

\* ------------------------------------------------- GET /api/jobs/:id
\* getJobDetails settles: the server read the row (result.job.status), or the
\* fetch failed (transport error, non-2xx answer, the 15 s abort)
getJobDetails(jobId, ok) == IF ok THEN jobs[jobId].status ELSE "error"

\* ------------------------------------------------- startJobPolling.poll
\* the timer of a chain fires: poll() up to its await of getJobDetails
PollTick(c) ==
    /\ chains[c].pc = "timer"
    /\ IF ~panel \/ chains[c].job \notin pollingJobs
       THEN /\ chains' = [chains EXCEPT ![c] = NoChain]
            /\ UNCHANGED faults
       ELSE \E ok \in BOOLEAN :
               /\ chains' = [chains EXCEPT ![c].pc = "fetch", ![c].attempts = @ + 1,
                                           ![c].resp = getJobDetails(chains[c].job, ok)]
               /\ Env(0, B(ok))
    /\ Posts(<<>>)
    /\ UNCHANGED <<serverVars, activated, panel, pollingJobs, isProcessingCommand,
                   currentJobId, cmds, refreshes, pureVars, closes>>

\* the lock release shared by the three ends of a chain:
\* if (this.currentJobId === jobId) { ... }
ReleaseIfCurrentNever(jobId) ==
    UNCHANGED <<currentJobId, isProcessingCommand>>

ReleaseIfCurrent(jobId) ==
    IF currentJobId = jobId
    THEN /\ currentJobId' = NoJob
         /\ isProcessingCommand' = FALSE
    ELSE UNCHANGED <<currentJobId, isProcessingCommand>>

\* a chain end that posts setLoadingState whatever the current job is
ReleaseOutAlways(jobId, evs) ==
    IF panel THEN evs \o <<Ev("setLoadingState", NoJob, "false")>> ELSE evs

\* ... and the events of the turn with the setLoadingState it adds
ReleaseOut(jobId, evs) ==
    IF currentJobId = jobId /\ panel
    THEN evs \o <<Ev("setLoadingState", NoJob, "false")>>
    ELSE evs

\* the test of poll()'s catch block: if (attempts < maxAttempts) the chain
\* schedules itself again, else it gives up
budgetLeftAlways(attempts) == TRUE

budgetLeft(attempts) == attempts < maxAttempts

\* poll() after getJobDetails settled.  With this.panel undefined the
\* postMessage of the try block throws, so a fetched job is handled by the
\* catch block like a failed fetch.
PollResume(c) ==
    /\ chains[c].pc = "fetch"
    /\ LET jobId == chains[c].job
           job == chains[c].resp
           attempts == chains[c].attempts
           posted == <<Ev("updateJobStatus", jobId, job)>>
           again == [chains EXCEPT ![c].pc = "timer", ![c].resp = "none"]
       IN IF job # "error" /\ panel
          THEN IF job \in TerminalStates \/ attempts >= maxAttempts
               THEN /\ pollingJobs' = pollingJobs \ {jobId}
                    /\ ReleaseIfCurrent(jobId)
                    /\ chains' = [chains EXCEPT ![c] = NoChain]
                    /\ Posts(ReleaseOut(jobId, posted))
               ELSE /\ chains' = again
                    /\ Posts(posted)
                    /\ UNCHANGED <<pollingJobs, isProcessingCommand, currentJobId>>
          ELSE IF budgetLeft(attempts)
               THEN /\ chains' = again
                    /\ Posts(<<>>)
                    /\ UNCHANGED <<pollingJobs, isProcessingCommand, currentJobId>>
               ELSE /\ IF panel
                       THEN /\ ReleaseIfCurrent(jobId)
                            /\ Posts(ReleaseOut(jobId,
                                         <<Ev("showPollingError", jobId, "none")>>))
                       ELSE /\ UNCHANGED <<isProcessingCommand, currentJobId>>
                            /\ Posts(<<>>)
                    /\ pollingJobs' = pollingJobs \ {jobId}
                    /\ chains' = [chains EXCEPT ![c] = NoChain]
    /\ UNCHANGED <<serverVars, activated, panel, cmds, refreshes, pureVars, envVars>>

\* ------------------------------------------------------ refreshJobStatus
\* message 'refreshJob' from the Refresh button of a job card:
\* refreshJobStatus up to its await of getJobDetails
RefreshJob(jobId) ==
    /\ panel
    /\ webview.cards[jobId] # "none"
    /\ FreeRefreshes # {}
    /\ \E ok \in BOOLEAN :
          /\ refreshes' = [refreshes EXCEPT ![Lowest(FreeRefreshes)] =
                              [job |-> jobId, pc |-> "fetch", resp |-> getJobDetails(jobId, ok)]]
          /\ Env(1, B(ok))
    /\ Posts(<<>>)
    /\ UNCHANGED <<serverVars, activated, panel, pollingJobs, isProcessingCommand,
                   currentJobId, cmds, chains, pureVars, closes>>

\* refreshJobStatus after getJobDetails settled; with this.panel undefined
\* the postMessage of the try block and then that of the catch block throw
RefreshResume(r) ==
    /\ refreshes[r].pc = "fetch"
    /\ refreshes' = [refreshes EXCEPT ![r] = DoneRefresh]
    /\ LET jobId == refreshes[r].job
           job == refreshes[r].resp
       IN IF ~panel
          THEN /\ Posts(<<>>)
               /\ UNCHANGED <<pollingJobs, chains>>
          ELSE IF job = "error"
          THEN /\ Posts(<<Ev("showPollingError", jobId, "none")>>)
               /\ UNCHANGED <<pollingJobs, chains>>
          ELSE /\ Posts(<<Ev("updateJobStatus", jobId, job)>>)
               /\ IF job \notin TerminalStates
                  THEN /\ jobId \notin pollingJobs => CanStartChain
                       /\ LET started == startJobPolling(jobId, pollingJobs, chains)
                          IN /\ pollingJobs' = started[1]
                             /\ chains' = started[2]
                  ELSE UNCHANGED <<pollingJobs, chains>>
    /\ UNCHANGED <<serverVars, activated, panel, isProcessingCommand, currentJobId, cmds,
                   pureVars, envVars>>

\* ------------------------------------------------------ panel life cycle
\* the chains that are outstanding when the panel goes away
MarkStale(ch) ==
    [c \in ChainIds |-> IF ch[c].pc \in {"timer", "fetch"}
                        THEN [ch[c] EXCEPT !.stale = TRUE] ELSE ch[c]]

\* command devcommandhub.openWindow with no panel: a new panel, a fresh page
OpenWindow ==
    /\ activated
    /\ ~panel
    /\ panel' = TRUE
    /\ webview' = EmptyPage
    /\ out' = <<>>
    /\ UNCHANGED <<serverVars, activated, pollingJobs, isProcessingCommand, currentJobId,
                   cmds, chains, refreshes, pureVars, envVars>>

\* a dispose that leaves the poller registrations in place
onDidDisposeKeepsPollers ==
    /\ pollingJobs' = pollingJobs
    /\ isProcessingCommand' = FALSE
    /\ currentJobId' = NoJob
    /\ panel' = FALSE

\* the state both dispose paths leave
onDidDispose ==
    /\ pollingJobs' = {}
    /\ isProcessingCommand' = FALSE
    /\ currentJobId' = NoJob
    /\ panel' = FALSE

\* the user closes the panel: panel.onDidDispose fires
PanelClosed ==
    /\ panel
    /\ EnvEvents < MaxEnvEvents
    /\ closes' = closes + 1
    /\ onDidDispose
    /\ chains' = MarkStale(chains)
    /\ webview' = EmptyPage
    /\ out' = <<>>
    /\ UNCHANGED <<serverVars, activated, cmds, refreshes, pureVars, faults>>

\* DevCommandHubProvider.dispose(), run when the extension is deactivated
Dispose ==
    /\ activated
    /\ activated' = FALSE
    /\ IF panel
       THEN /\ onDidDispose
            /\ chains' = MarkStale(chains)
            /\ webview' = EmptyPage
       ELSE UNCHANGED <<pollingJobs, isProcessingCommand, currentJobId, panel, chains, webview>>
    /\ out' = <<>>
    /\ UNCHANGED <<serverVars, cmds, refreshes, pureVars, envVars>>

\* ------------------------------------------------ POST /api/commands, in full
NoOverrides == [service |-> "none", environment |-> "none", replicas |-> NoNumber]
\* no request: the body, the headers, and what the classifier and the store
\* will answer to this request
NoRequest == [command |-> NoCommand, enableNLU |-> FALSE, confidenceThreshold |-> 0,
              slotOverrides |-> NoOverrides, hfApiKey |-> FALSE, githubHeader |-> FALSE,
              classifier |-> [kind |-> "none"], inserted |-> FALSE]
\* the handler has not run
NoResponse == [pc |-> "none", status |-> 0, code |-> "none", missing |-> {},
               parsed |-> NoIntent, intent |-> NoIntent,
               parsed_intent |-> NoIntent, job |-> NoJob, jobStatus |-> "none",
               execution_method |-> "none"]

\* extractGitHubApiKey: the header, else the environment's key
extractGitHubApiKey(req) == req.githubHeader \/ GITHUB_API_KEY

\* the ids the store has not handed out
FreeJobs == {j \in JobIds : jobs[j].status = "none"}

\* parsedIntent = nluOn ? await parseWithNLU(...) : regexOnly(command)
parseOf(req) ==
    IF req.enableNLU
    THEN parseWithNLU(req.command, req.hfApiKey, req.confidenceThreshold, req.classifier)
    ELSE regexParse(req.command)

\* a createJob result that is never taken for a failure
createFailedNever(inserted) == FALSE

\* if (createRes.error || !createRes.data)
createFailed(inserted) == ~inserted

\* the handler up to its await of the parse: the token check, then parseWithNLU
\* or regexOnly
PostCommandsParse ==
    /\ postRes.pc = "received"
    /\ IF USE_GITHUB_ACTIONS /\ ~extractGitHubApiKey(postReq)
       THEN postRes' = [postRes EXCEPT !.pc = "done", !.status = 400,
                                       !.code = "MISSING_GITHUB_TOKEN"]
       ELSE postRes' = [postRes EXCEPT !.pc = "parsed", !.parsed = parseOf(postReq),
                                       !.parsed_intent = parseOf(postReq)]
    /\ out' = <<>>
    /\ UNCHANGED <<serverVars, clientVars, gaRun, dch, nluCall, nluResult, postReq, backoff,
                   envVars>>

\* the final intent of the handler: hints merged, overrides applied
finalIntent(req, parsedIntent) ==
    applyOverrides(mergedIntent(parsedIntent, parseClientHints(req.command)),
                   req.slotOverrides)

\* the handler from the parse on: merge, the two validations, createJob, the
\* executor, the response
PostCommandsFinish ==
    /\ postRes.pc = "parsed"
    /\ FreeJobs # {}
    /\ LET intent == finalIntent(postReq, postRes.parsed)
           slots == validateIntent(intent)
           validation == commandParserValidateIntent(intent)
           githubToken == extractGitHubApiKey(postReq)
           job == Lowest(FreeJobs)
           answer(status, code, i) ==
               [postRes EXCEPT !.pc = "done", !.status = status, !.code = code,
                               !.intent = intent, !.parsed_intent = i]
       IN IF ~slots.ok
          THEN /\ postRes' = [answer(422, "MISSING_SLOT", intent) EXCEPT
                                 !.missing = slots.missing]
               /\ UNCHANGED <<jobs, writes, simTimers, jobSimulations, ghExec,
                              githubJobTracking, terminalWrites>>
          ELSE IF ~validation.valid
          THEN /\ postRes' = answer(400, "VALIDATION_ERROR", validation.intent)
               /\ UNCHANGED <<jobs, writes, simTimers, jobSimulations, ghExec,
                              githubJobTracking, terminalWrites>>
          ELSE IF createFailed(postReq.inserted)
          THEN /\ postRes' = answer(500, "INSERT_FAILED", validation.intent)
               /\ UNCHANGED <<jobs, writes, simTimers, jobSimulations, ghExec,
                              githubJobTracking, terminalWrites>>
          ELSE /\ jobs' = [jobs EXCEPT ![job] =
                                createJob([user_id |-> "user",
                                           original_command |-> postReq.command,
                                           parsed_intent |-> validation.intent,
                                           job_type |-> validation.intent.action])]
               /\ IF USE_GITHUB_ACTIONS /\ githubToken
                  THEN executeWithGitHubActions(job)
                  ELSE simulateJobExecution(job)
               /\ postRes' = [answer(201, "none", validation.intent) EXCEPT
                                 !.job = job,
                                 !.jobStatus = jobs'[job].status,
                                 !.execution_method =
                                     IF USE_GITHUB_ACTIONS /\ githubToken
                                     THEN "github_actions" ELSE "simulation"]
    /\ out' = <<>>
    /\ UNCHANGED <<USE_GITHUB_ACTIONS, GITHUB_API_KEY, clientVars, gaRun, dch, nluCall,
                   nluResult, postReq, backoff, envVars>>

\* ------------------------------------------------- pure function calls
NoCall == [coarse |-> "none", hfApiKey |-> FALSE, confidenceThreshold |-> 0,
           classifier |-> [kind |-> "none"]]
NoResult == [action |-> "none", source |-> "none"]

\* mapGaToDchStatus is applied to the run
MapStatus ==
    /\ dch = "none"
    /\ dch' = mapGaToDchStatus(gaRun[1], gaRun[2])
    /\ UNCHANGED <<serverVars, clientVars, out, gaRun, nluCall, nluResult, postReq, postRes,
                   backoff, envVars>>

\* parseCommand is applied to the call's inputs
ParseCommand ==
    /\ nluResult = NoResult
    /\ nluResult' = parseCommand(nluCall.coarse, nluCall.hfApiKey,
                                 nluCall.confidenceThreshold, nluCall.classifier)
    /\ UNCHANGED <<serverVars, clientVars, out, gaRun, dch, nluCall, postReq, postRes, backoff,
                   envVars>>

\* the catch block of poll() computes the delay of the next attempt
Min(a, b) == IF a <= b THEN a ELSE b

\* a delay that is not capped
errorBackoffDelayUncapped(attempts) == 1000 * 2 ^ Min(attempts, 5)

\* Math.min(30000, 1000 * Math.pow(2, Math.min(attempts, 5)))
errorBackoffDelay(attempts) == Min(30000, 1000 * 2 ^ Min(attempts, 5))

\* no timer scheduled
NoDelay == 0
NoBackoff == [attempts |-> 0, delay |-> NoDelay]

\* attempt number backoff.attempts failed: setTimeout(poll, delay)
ErrorBackoff ==
    /\ backoff.attempts >= 1
    /\ backoff.delay = NoDelay
    /\ backoff' = [backoff EXCEPT !.delay = errorBackoffDelay(backoff.attempts)]
    /\ UNCHANGED <<serverVars, clientVars, out, gaRun, dch, nluCall, nluResult, postReq,
                   postRes, envVars>>

\* ------------------------------------------------------------ the system
InitServer ==
    /\ USE_GITHUB_ACTIONS \in BOOLEAN
    /\ GITHUB_API_KEY \in BOOLEAN
    /\ jobs = [j \in JobIds |-> NoRow]
    /\ writes = {}
    /\ simTimers = [j \in JobIds |-> NoTimers]
    /\ jobSimulations = {}
    /\ ghExec = [j \in JobIds |-> NoGh]
    /\ githubJobTracking = {}
    /\ terminalWrites = [j \in JobIds |-> 0]

InitClient ==
    /\ faults = 0
    /\ closes = 0
    /\ activated = TRUE
    /\ panel = FALSE
    /\ pollingJobs = {}
    /\ isProcessingCommand = FALSE
    /\ currentJobId = NoJob
    /\ cmds = [k \in JobIds |-> NoCmd]
    /\ chains = [c \in ChainIds |-> NoChain]
    /\ refreshes = [r \in RefreshIds |-> NoRefresh]
    /\ webview = EmptyPage
    /\ out = <<>>

NoPureCalls ==
    /\ gaRun = <<"none", "none">>
    /\ dch = "none"
    /\ nluCall = NoCall
    /\ nluResult = NoResult
    /\ postReq = NoRequest
    /\ postRes = NoResponse
    /\ backoff = NoBackoff

Init == InitServer /\ InitClient /\ NoPureCalls

ServerNext ==
    \/ \E j \in JobIds : SimRunningTimeout(j)
    \/ \E j \in JobIds : SimCompletionTimeout(j)
    \/ \E w \in writes : StoreWrite(w)
    \/ \E j \in JobIds : GhDispatch(j)
    \/ \E j \in JobIds : GhFindRun(j)
    \/ \E j \in JobIds : GhPoll(j)

ClientNext ==
    \/ SendDevCommand
    \/ RetryJob
    \/ \E k \in JobIds : HandleDevCommandResume(k)
    \/ \E k \in JobIds : SlotPromptPicked(k)
    \/ \E k \in JobIds : SlotPromptCancelled(k)
    \/ \E c \in ChainIds : PollTick(c)
    \/ \E c \in ChainIds : PollResume(c)
    \/ \E j \in JobIds : RefreshJob(j)
    \/ \E r \in RefreshIds : RefreshResume(r)
    \/ OpenWindow
    \/ PanelClosed
    \/ Dispose

Next == ServerNext \/ ClientNext

Spec == Init /\ [][Next]_vars

\* ------------------------------------------------------------ fairness
\* every pending timer fires, every fetch settles, the server and the store
\* keep working; the user owes nothing: no command, no answer to a prompt
Progress ==
    \/ ServerNext
    \/ \E k \in JobIds : HandleDevCommandResume(k)
    \/ \E c \in ChainIds : PollTick(c)
    \/ \E c \in ChainIds : PollResume(c)
    \/ \E r \in RefreshIds : RefreshResume(r)

\* the runs of at most MaxFairEvents user and environment events
FairNext == Next /\ EnvEvents' <= MaxFairEvents

FairSpec == Init /\ [][FairNext]_vars /\ WF_vars(Progress /\ EnvEvents' <= MaxFairEvents)


\* the status mapping alone, on every run state
InitMap ==
    /\ InitServer /\ ~USE_GITHUB_ACTIONS /\ ~GITHUB_API_KEY
    /\ InitClient
    /\ gaRun \in GAStatusAll \X GAConclusionAll
    /\ dch = "none"
    /\ nluCall = NoCall
    /\ nluResult = NoResult
    /\ postReq = NoRequest
    /\ postRes = NoResponse
    /\ backoff = NoBackoff

SpecMap == InitMap /\ [][MapStatus]_vars

\* parseCommand alone, on every call
InitNlu ==
    /\ InitServer /\ ~USE_GITHUB_ACTIONS /\ ~GITHUB_API_KEY
    /\ InitClient
    /\ gaRun = <<"none", "none">>
    /\ dch = "none"
    /\ nluCall \in [coarse : CoarseActions, hfApiKey : BOOLEAN,
                    confidenceThreshold : Thresholds, classifier : Classifier]
    /\ nluResult = NoResult
    /\ postReq = NoRequest
    /\ postRes = NoResponse
    /\ backoff = NoBackoff

SpecNlu == InitNlu /\ [][ParseCommand]_vars

\* the error backoff alone, after every attempt number a chain of the default
\* maxAttempts = 60 can fail on
InitBackoff ==
    /\ InitServer /\ ~USE_GITHUB_ACTIONS /\ ~GITHUB_API_KEY
    /\ InitClient
    /\ gaRun = <<"none", "none">>
    /\ dch = "none"
    /\ nluCall = NoCall
    /\ nluResult = NoResult
    /\ postReq = NoRequest
    /\ postRes = NoResponse
    /\ backoff \in [attempts : 1..MaxBackoffAttempts, delay : {NoDelay}]

SpecBackoff == InitBackoff /\ [][ErrorBackoff]_vars

\* ------------------------------------------------ the command intake alone
\* the classifier outcomes and the requests the handler is run on
ParseOutcomes == {[kind |-> "throws"], [kind |-> "ranked", action |-> "scale", score |-> 90],
                  [kind |-> "ranked", action |-> "deploy", score |-> 55]}
InitIntakeRest ==
    /\ InitClient
    /\ gaRun = <<"none", "none">>
    /\ dch = "none"
    /\ nluCall = NoCall
    /\ nluResult = NoResult
    /\ postRes = [NoResponse EXCEPT !.pc = "received"]
    /\ backoff = NoBackoff

\* parseCommand and regexParse on every set of keyword groups and every
\* outcome of the classifier call
InitParse ==
    /\ InitServer /\ ~GITHUB_API_KEY
    /\ InitIntakeRest
    /\ postReq \in [command : [groups : SUBSET Actions, service : {"api"},
                               envWord : {"none", "prod"}, envMarked : {TRUE},
                               num : {NoNumber, 500}, numCtx : {"to N"}],
                    enableNLU : BOOLEAN, confidenceThreshold : Thresholds,
                    slotOverrides : {NoOverrides}, hfApiKey : BOOLEAN,
                    githubHeader : {FALSE}, classifier : Classifier, inserted : {TRUE}]

SpecParse == InitParse /\ [][PostCommandsParse]_vars

\* the keyword sets, numbers and overrides of the requests below
KeywordSets == {{}, {"deploy"}, {"scale"}, {"restart"}}
Nums == {3, 101, 500, 1000}
TextCommands ==
    {c \in [groups : KeywordSets, service : {"none", "api", "payments"},
            envWord : {"none"} \cup EnvWords, envMarked : BOOLEAN,
            num : {NoNumber} \cup Nums, numCtx : {"none"} \cup NumCtxs] :
        /\ c.envWord = "none" => ~c.envMarked
        /\ c.num = NoNumber <=> c.numCtx = "none"}

\* the handler from request to response, the executors left out
InitIntake ==
    /\ InitServer /\ ~USE_GITHUB_ACTIONS /\ ~GITHUB_API_KEY
    /\ InitIntakeRest
    /\ postReq \in [command : TextCommands,
                    enableNLU : BOOLEAN, confidenceThreshold : {70},
                    slotOverrides : [service : {"none", "web"}, environment : {"none", "qa"},
                                     replicas : {NoNumber, 5, 500}],
                    hfApiKey : {TRUE}, githubHeader : {FALSE},
                    classifier : ParseOutcomes, inserted : {TRUE}]
    /\ postReq.enableNLU \/ postReq.classifier.kind = "throws"

SpecIntake == InitIntake /\ [][PostCommandsParse \/ PostCommandsFinish]_vars

\* the handler and the executors it starts, in every configuration
InitPost ==
    /\ InitServer
    /\ InitIntakeRest
    /\ postReq \in [command : {c \in TextCommands :
                                  /\ c.service # "payments"
                                  /\ c.envWord \in {"none", "prod"}
                                  /\ c.envWord = "prod" => c.envMarked
                                  /\ c.num \in {NoNumber, 3, 500}
                                  /\ c.numCtx \in {"none", "to N"}},
                    enableNLU : {FALSE}, confidenceThreshold : {70},
                    slotOverrides : [service : {"none", "web"}, environment : {"none"},
                                     replicas : {NoNumber}],
                    hfApiKey : {FALSE}, githubHeader : BOOLEAN,
                    classifier : {[kind |-> "throws"]}, inserted : BOOLEAN]

PostNext == PostCommandsParse \/ PostCommandsFinish \/ ServerNext

SpecPost == InitPost /\ [][PostNext]_vars

\* ... with every timer firing, every remote call and store call returning or
\* failing, and the handler running to its response
FairSpecPost == InitPost /\ [][PostNext]_vars /\ WF_vars(PostNext)

\* ================================================================ claims
\* position of a status in the life cycle queued -> running -> terminal
Rank(status) ==
    IF status = "none" THEN 0
    ELSE IF status = "queued" THEN 1
    ELSE IF status = "running" THEN 2
    ELSE 3

BusyEvents == <<Ev("showBusyMessage", NoJob, "none")>>
LiveChains(j) == {c \in ChainIds : chains[c].pc \in {"timer", "fetch"} /\ chains[c].job = j}

\* C1: while isProcessingCommand is true, a sendDevCommand or retryJob message
\* is answered with showBusyMessage alone, sends no POST /api/commands (no
\* invocation starts, the server does not change) and leaves
\* isProcessingCommand, currentJobId and pollingJobs as they were.
C1_BusyRejection ==
    [][(isProcessingCommand /\ (SendDevCommand \/ RetryJob))
          => /\ out' = BusyEvents
             /\ UNCHANGED <<isProcessingCommand, currentJobId, pollingJobs, cmds, chains,
                            serverVars>>]_vars

\* a message was rejected while a command's request is in flight
C1_Witness ==
    /\ isProcessingCommand
    /\ out = BusyEvents
    /\ \E k \in JobIds : cmds[k].pc = "replied"

\* C2: at most one job of the session is queued or running on the server.
C2_OneActiveJob ==
    Cardinality({j \in JobIds : jobs[j].status \in {"queued", "running"}}) <= 1

\* C3, the prompt set apart: once isProcessingCommand is true it becomes
\* false again, or the command waits at the slot-fill prompt for the user.
C3_LockReleasedOrPrompt ==
    isProcessingCommand ~> (~isProcessingCommand \/ \E k \in JobIds : cmds[k].pc = "prompt")

\* C3: once isProcessingCommand is true it becomes false again.
C3_LockReleased == isProcessingCommand ~> ~isProcessingCommand

\* the end of a poll chain released the lock
C3_Witness ==
    /\ ~isProcessingCommand
    /\ panel
    /\ Len(out) = 2
    /\ out[1].command \in {"updateJobStatus", "showPollingError"}
    /\ out[2] = Ev("setLoadingState", NoJob, "false")

\* C4: for each job at most one poll chain is live (timer pending or
\* getJobDetails in flight).
C4_OneChainPerJob == \A j \in JobIds : Cardinality(LiveChains(j)) <= 1

\* C5: a poll tick that fetched a terminal status ends its chain: the client
\* chain sets no further timer and its job is not in pollingJobs after the
\* step; the server poller that wrote a terminal status is done.
C5_ChainEndsOnTerminal ==
    [][/\ \A c \in ChainIds :
             (chains[c].resp \in TerminalStates /\ PollResume(c))
                => chains'[c].pc = "free" /\ chains[c].job \notin pollingJobs'
       /\ \A j \in JobIds :
             (GhPoll(j) /\ jobs'[j].status \in TerminalStates)
                => ghExec'[j].pc = "done" /\ j \notin githubJobTracking']_vars

\* C6: the updateJobStatus events of a job come in non-decreasing life-cycle
\* order with one terminal event: an event is never behind the status the
\* job's card shows (the last one posted to this page), and none follows a
\* terminal one.
C6_EventsInOrder ==
    [][\A i \in DOMAIN out' :
          LET shown == webview.cards[out'[i].jobId]
          IN (out'[i].command = "updateJobStatus" /\ panel /\ shown # "none")
                => /\ Rank(out'[i].status) >= Rank(shown)
                   /\ shown \notin TerminalStates]_vars

\* C7: a dispose empties pollingJobs, clears the lock and currentJobId and
\* leaves the server alone; a chain that was outstanding at a dispose sends
\* no further getJobDetails and posts no further event.
C7_DisposeStopsChains ==
    [][/\ (PanelClosed \/ (Dispose /\ panel))
             => /\ pollingJobs' = {} /\ ~isProcessingCommand' /\ currentJobId' = NoJob
                /\ UNCHANGED serverVars
       /\ \A c \in ChainIds :
             chains[c].stale
                => /\ ~(PollTick(c) /\ chains'[c].pc = "fetch")
                   /\ ~(PollResume(c) /\ out' # <<>>)]_vars

\* C8: the stored status of a job never moves backward: not from running to
\* queued, not from a terminal status to any other.
C8_StatusForwardOnly ==
    [][\A j \in JobIds :
          /\ Rank(jobs'[j].status) >= Rank(jobs[j].status)
          /\ jobs[j].status \in TerminalStates => jobs'[j].status = jobs[j].status]_vars

\* C9: mapGaToDchStatus over the declared run states: queued and in_progress
\* give running whatever the conclusion; completed gives completed on
\* success, cancelled on cancelled, failed on every other conclusion.
C9_StatusMapping ==
    (dch # "none" /\ gaRun[1] \in GAStatus)
       => dch = IF gaRun[1] \in {"queued", "in_progress"} THEN "running"
                ELSE IF gaRun[2] = "success" THEN "completed"
                ELSE IF gaRun[2] = "cancelled" THEN "cancelled"
                ELSE "failed"

\* a completed, cancelled run was mapped
C9_Witness == gaRun = <<"completed", "cancelled">> /\ dch = "cancelled"

\* C10: with a ranked classifier answer, a top score at or above the
\* threshold gives the top action with source hf:<model>; a top score below
\* it gives the regexParse action with source regex-fallback.
C10_ConfidenceGate ==
    (nluResult # NoResult /\ nluCall.hfApiKey /\ nluCall.classifier.kind = "ranked")
       => IF nluCall.classifier.score >= nluCall.confidenceThreshold
          THEN nluResult = [action |-> nluCall.classifier.action, source |-> "hf:model"]
          ELSE nluResult = [action |-> nluCall.coarse, source |-> "regex-fallback"]

\* C11: for every outcome of the classifier call parseCommand returns a
\* ParsedIntent, never an exception; when the call fails the intent is the
\* rule-based one (regexParse's action and slots, confidence 0.5) with source
\* "regex-error-fallback" and the error recorded.
C11_ClassifierFailureContained ==
    (postRes.pc = "parsed" /\ postReq.enableNLU) =>
        /\ postRes.parsed.action \in Actions \cup {"unknown"}
        /\ (postReq.hfApiKey /\ postReq.classifier.kind = "throws") =>
              postRes.parsed = [regexParse(postReq.command) EXCEPT
                                   !.confidence = 50,
                                   !.source = "regex-error-fallback",
                                   !.error = TRUE]

\* a failed classifier call was answered with the rule-based intent
C11_Witness ==
    /\ postRes.pc = "parsed"
    /\ postReq.enableNLU /\ postReq.hfApiKey /\ postReq.classifier.kind = "throws"
    /\ postRes.parsed.action = "rollback"
    /\ postRes.parsed.source = "regex-error-fallback"
    /\ postRes.parsed.error

\* the required-field table of the Slot Validator
RequiredSlotsPresent(intent) ==
    IF intent.action = "deploy"
    THEN intent.service # "none" /\ intent.environment # "none"
    ELSE IF intent.action = "scale"
    THEN intent.service # "none" /\ intent.replicas >= 0 /\ intent.replicas <= 100
    ELSE IF intent.action \in {"logs", "rollback", "status", "restart"}
    THEN intent.service # "none"
    ELSE FALSE

\* C12: the handler creates a job and starts an executor only if the final
\* intent has the required fields of its action; otherwise it answers 422
\* MISSING_SLOT or 400 and leaves the job store, the timers and the maps
\* jobSimulations and githubJobTracking as they were.
C12_RequiredSlotsGate ==
    [][(PostCommandsFinish /\ ~RequiredSlotsPresent(postRes'.intent))
          => /\ postRes'.status \in {400, 422}
             /\ postRes'.status = 422 => (postRes'.code = "MISSING_SLOT"
                                           /\ postRes'.missing # {})
             /\ UNCHANGED <<jobs, writes, simTimers, jobSimulations, ghExec,
                            githubJobTracking>>]_vars

\* a command with a missing slot was answered 422 and nothing was created
C12_Witness ==
    /\ postRes.pc = "done"
    /\ postRes.status = 422
    /\ postRes.missing = {"service", "environment"}
    /\ \A j \in JobIds : jobs[j] = NoRow

\* the values the parse and the server-side hints produced for a slot
ProducedService ==
    {postRes.parsed.service, parseClientHints(postReq.command).service} \ {"none"}
ProducedEnvironment ==
    {postRes.parsed.environment, parseClientHints(postReq.command).environment} \ {"none"}
ProducedReplicas ==
    {postRes.parsed.replicas, parseClientHints(postReq.command).replicas} \ {NoNumber}

\* C13: in the final intent each of service, environment and replicas is the
\* slotOverrides value when one is supplied, otherwise a value the parse
\* (classifier / rules, server-side hints included) produced when it produced
\* one, otherwise unset.
C13_MergePrecedence ==
    (postRes.pc = "done" /\ postRes.intent # NoIntent) =>
        /\ postRes.intent.service =
              IF postReq.slotOverrides.service # "none" THEN postReq.slotOverrides.service
              ELSE IF ProducedService = {} THEN "none" ELSE postRes.intent.service
        /\ postReq.slotOverrides.service = "none" /\ ProducedService # {}
              => postRes.intent.service \in ProducedService
        /\ postRes.intent.environment =
              IF postReq.slotOverrides.environment # "none"
              THEN postReq.slotOverrides.environment
              ELSE IF ProducedEnvironment = {} THEN "none" ELSE postRes.intent.environment
        /\ postReq.slotOverrides.environment = "none" /\ ProducedEnvironment # {}
              => postRes.intent.environment \in ProducedEnvironment
        /\ postRes.intent.replicas =
              IF postReq.slotOverrides.replicas # NoNumber THEN postReq.slotOverrides.replicas
              ELSE IF ProducedReplicas = {} THEN NoNumber ELSE postRes.intent.replicas
        /\ postReq.slotOverrides.replicas = NoNumber /\ ProducedReplicas # {}
              => postRes.intent.replicas \in ProducedReplicas

\* an override replaced the values the parse and the hints had produced
C13_Witness ==
    /\ postRes.pc = "done"
    /\ postRes.parsed.service = "api"
    /\ parseClientHints(postReq.command).replicas = 500
    /\ postRes.intent.service = "web"
    /\ postRes.intent.replicas = 5

\* the request passes both validations
PassesValidation(req) ==
    LET intent == finalIntent(req, parseOf(req))
    IN validateIntent(intent).ok /\ commandParserValidateIntent(intent).valid

\* C14: a command that passes validation (and whose job is stored) is run by
\* the workflow executor when USE_GITHUB_ACTIONS is on and a GitHub token is
\* present, and by the simulated executor in every other configuration, also
\* with USE_GITHUB_ACTIONS on and no token; exactly one executor is started.
C14_ExecutorSelection ==
    (postRes.pc = "done" /\ PassesValidation(postReq) /\ postReq.inserted) =>
        /\ postRes.job # NoJob
        /\ IF USE_GITHUB_ACTIONS /\ extractGitHubApiKey(postReq)
           THEN ghExec[postRes.job] # NoGh /\ simTimers[postRes.job] = NoTimers
           ELSE ghExec[postRes.job] = NoGh /\ simTimers[postRes.job] # NoTimers

\* C15: the 201 response carries the job id and status queued and is sent in
\* the turn that starts the executor, before any executor step: the job is
\* queued, no store write is issued and the executor is at its first
\* position; a job leaves queued only after the handler has answered.
C15_NonBlockingSubmit ==
    [][/\ (PostCommandsFinish /\ postRes'.status = 201)
            => /\ postRes'.job # NoJob
               /\ postRes'.jobStatus = "queued"
               /\ jobs'[postRes'.job].status = "queued"
               /\ writes' = writes
               /\ \/ simTimers'[postRes'.job] =
                        [runningTimeout |-> "pending", completionTimeout |-> "pending"]
                  \/ ghExec'[postRes'.job].pc = "dispatch"
       /\ \A j \in JobIds : jobs'[j].status \notin {"none", "queued"}
            => postRes.pc = "done" /\ postRes.job = j]_vars

\* the job went on to run after its 201 response
C15_Witness ==
    /\ postRes.pc = "done"
    /\ postRes.status = 201
    /\ postRes.jobStatus = "queued"
    /\ jobs[postRes.job].status = "running"

\* C16: when createJob fails the handler answers 500 INSERT_FAILED, starts no
\* executor, schedules no timer and adds nothing to jobSimulations or
\* githubJobTracking.
C16_InsertFailure ==
    [][(PostCommandsFinish /\ PassesValidation(postReq) /\ ~postReq.inserted)
          => /\ postRes'.status = 500
             /\ postRes'.code = "INSERT_FAILED"
             /\ UNCHANGED <<jobs, writes, simTimers, jobSimulations, ghExec,
                            githubJobTracking>>]_vars

\* a valid command whose insert failed was answered 500
C16_Witness ==
    /\ postRes.pc = "done"
    /\ postRes.code = "INSERT_FAILED"
    /\ PassesValidation(postReq)
    /\ jobSimulations = {} /\ githubJobTracking = {}
    /\ \A j \in JobIds : simTimers[j] = NoTimers /\ ghExec[j] = NoGh

\* position of an action in rollback > scale > restart > logs > status > deploy
PrecedenceRank(action) ==
    IF action = "rollback" THEN 1
    ELSE IF action = "scale" THEN 2
    ELSE IF action = "restart" THEN 3
    ELSE IF action = "logs" THEN 4
    ELSE IF action = "status" THEN 5
    ELSE 6

\* C17: regexParse returns the matched keyword group of highest precedence
\* (rollback > scale > restart > logs > status > deploy), and unknown, with
\* confidence 0.5 and source "regex", exactly when no group matches.
C17_ActionPrecedence ==
    (postRes.pc = "parsed" /\ ~postReq.enableNLU) =>
        LET groups == postReq.command.groups
            action == postRes.parsed.action
        IN /\ postRes.parsed.confidence = 50 /\ postRes.parsed.source = "regex"
           /\ action = "unknown" <=> groups = {}
           /\ groups # {} =>
                 /\ action \in groups
                 /\ \A g \in groups : PrecedenceRank(action) <= PrecedenceRank(g)

\* rollback won over scale and deploy
C17_Witness ==
    /\ postRes.pc = "parsed" /\ ~postReq.enableNLU
    /\ postReq.command.groups = {"deploy", "scale", "rollback"}
    /\ postRes.parsed.action = "rollback"

\* C18: the intent stored with a created job has replicas unset or an integer
\* in [0, 100], for every action and every source of the value.
C18_ReplicasInRange ==
    (postRes.pc = "done" /\ postRes.status = 201) =>
        \/ postRes.parsed_intent.replicas = NoNumber
        \/ postRes.parsed_intent.replicas \in 0..100

\* the canonical environment names
CanonicalEnvironments == {"production", "staging", "development", "test", "qa", "uat"}

\* C19: the intent stored with a created job has no environment outside the
\* canonical set, and has a canonical one when the command names an
\* environment alias (to/in/on/for alias, alias env).
C19_EnvironmentCanonical ==
    (postRes.pc = "done" /\ postRes.status = 201) =>
        /\ postRes.parsed_intent.environment \in CanonicalEnvironments \cup {"none"}
        /\ (postReq.command.envWord \in EnvAliases /\ postReq.command.envMarked)
              => postRes.parsed_intent.environment \in CanonicalEnvironments

\* C20: a poll chain that ends because its attempts are used up while the job
\* is not terminal, after a successful fetch or after a failed one, posts
\* showPollingError for the job in that turn.
C20_ExhaustionReported ==
    [][\A c \in ChainIds :
          (/\ PollResume(c)
           /\ chains[c].attempts >= maxAttempts
           /\ chains[c].resp \notin TerminalStates
           /\ chains'[c] = NoChain)
          => \E i \in DOMAIN out' : out'[i] = Ev("showPollingError", chains[c].job, "none")]_vars

\* C21: a failed status fetch (transport error, non-2xx answer, abort) with
\* attempts below maxAttempts makes the chain schedule itself again, with the
\* attempt counted; no chain ever counts more than maxAttempts fetches, and a
\* chain whose fetch number maxAttempts settled ends and leaves pollingJobs.
C21_FailedFetchRetriesWithinBudget ==
    [][\A c \in ChainIds :
          /\ chains'[c].attempts <= maxAttempts
          /\ (chains[c].pc = "fetch" /\ chains'[c].pc # "fetch") =>
                /\ (chains[c].resp = "error" /\ chains[c].attempts < maxAttempts) =>
                      /\ chains'[c].pc = "timer"
                      /\ chains'[c].job = chains[c].job
                      /\ chains'[c].attempts = chains[c].attempts
                      /\ pollingJobs' = pollingJobs
                /\ chains[c].attempts >= maxAttempts =>
                      /\ chains'[c] = NoChain
                      /\ chains[c].job \notin pollingJobs']_vars

\* a chain that failed a fetch and went on to its last one, which failed too
C21_Witness ==
    \E c \in ChainIds : /\ chains[c].pc = "fetch"
                         /\ chains[c].attempts = maxAttempts
                         /\ chains[c].resp = "error"
                         /\ faults >= 2

\* C22: when the dispatch succeeded and findRunByName gives up (the step out
\* of the run search registers no run), the executor is finished with no poll
\* chain, githubJobTracking is as before, the row has no external_job_id and
\* is not failed; unless the store rejects the write, the row is running and
\* its output is the note that the run was not found.
C22_RunNotFoundLeavesRunning ==
    [][\A j \in JobIds :
          (ghExec[j].pc = "findRun" /\ ghExec'[j].pc # "findRun"
                                    /\ j \notin githubJobTracking') =>
             /\ ghExec'[j].pc = "done"
             /\ githubJobTracking' = githubJobTracking
             /\ ~jobs'[j].external_job_id
             /\ jobs'[j].status \in {"queued", "running"}
             /\ faults' = faults => /\ jobs'[j].status = "running"
                                    /\ jobs'[j].output = "run_not_found"]_vars

\* a job whose run was not found: running, with the note, untracked, no chain
C22_Witness ==
    \E j \in JobIds : /\ ghExec[j].pc = "done"
                       /\ jobs[j].status = "running"
                       /\ jobs[j].output = "run_not_found"
                       /\ ~jobs[j].external_job_id
                       /\ j \notin githubJobTracking

\* C23: whenever a command ends on a failed submission (the fetch rejected,
\* the answer was not ok, the slot-fill prompt was dismissed) or ends after
\* the panel was disposed while its request was in flight, handleDevCommand
\* has run its catch block to the end: the error response was posted,
\* isProcessingCommand is false and currentJobId is null.
C23_SubmissionFailureContained ==
    [][\A k \in JobIds :
          (/\ cmds[k].pc \in {"replied", "retried", "prompt"}
           /\ cmds'[k].pc = "done"
           /\ cmds[k].resp # "created" \/ ~panel) =>
             /\ \E i \in DOMAIN out' : out'[i] = Ev("addDevResponse", NoJob, "error")
             /\ ~isProcessingCommand'
             /\ currentJobId' = NoJob]_vars

\* C24: every 422 MISSING_SLOT answer to the first POST, whichever fields it
\* lists as missing, is followed by the slot-fill prompt; the lock is held
\* while the prompt is pending; from the prompt the command is re-submitted,
\* or, when the prompt is dismissed, ends with an error response and the
\* lock released.
C24_SlotFillRoundTrip ==
    [][\A k \in JobIds :
          /\ (/\ cmds[k].pc = "replied"
              /\ cmds[k].resp \in {"missing_service", "missing_other"}
              /\ cmds'[k].pc # "replied") => cmds'[k].pc = "prompt"
          /\ cmds'[k].pc = "prompt" => isProcessingCommand'
          /\ (cmds[k].pc = "prompt" /\ cmds'[k].pc # "prompt") =>
                \/ cmds'[k].pc = "retried"
                \/ /\ cmds'[k].pc = "done"
                   /\ \E i \in DOMAIN out' : out'[i] = Ev("addDevResponse", NoJob, "error")
                   /\ ~isProcessingCommand']_vars

\* position of handleDevCommand invocation k in sendCommandToAPI
PcRank(pc) ==
    IF pc = "idle" THEN 0
    ELSE IF pc = "replied" THEN 1
    ELSE IF pc = "prompt" THEN 2
    ELSE IF pc = "retried" THEN 3
    ELSE 4

\* C29: a command never returns to an earlier point of sendCommandToAPI, so it
\* sends its first POST once and its retry POST at most once; the prompt that
\* precedes the retry is reached only from a first answer 422 that lists the
\* service, and never while a job of the command exists; a job of the command
\* is created only in a turn that sends one of these two POSTs.
C29_AtMostOneJobPerCommand ==
    [][\A k \in JobIds :
          /\ PcRank(cmds'[k].pc) >= PcRank(cmds[k].pc)
          /\ (cmds'[k].pc = "prompt" /\ cmds[k].pc # "prompt") =>
                (cmds[k].pc = "replied" /\ cmds[k].resp = "missing_service")
          /\ (cmds'[k].pc = "retried" /\ cmds[k].pc # "retried") => cmds[k].pc = "prompt"
          /\ cmds'[k].pc = "prompt" => jobs'[k].status = "none"
          /\ (jobs[k].status = "none" /\ jobs'[k].status # "none") =>
                \/ cmds[k].pc = "idle" /\ cmds'[k].pc = "replied"
                \/ cmds[k].pc = "prompt" /\ cmds'[k].pc = "retried"]_vars

\* a command whose retry POST created its one job
C29_Witness ==
    \E k \in JobIds : /\ cmds[k].pc = "retried"
                       /\ cmds[k].resp = "created"
                       /\ jobs[k].status = "queued"

\* C25: in every row of the job store completed_at is set exactly when the
\* status is completed, failed or cancelled, and started_at is set exactly
\* when the status is not queued.
C25_TimestampsMatchStatus ==
    \A j \in JobIds :
       jobs[j].status # "none" =>
          /\ jobs[j].completed_at <=> jobs[j].status \in TerminalStates
          /\ jobs[j].started_at <=> jobs[j].status # "queued"

\* C26: no job whose stored status is terminal has an entry in jobSimulations
\* or githubJobTracking, and an entry is removed only in a step after which
\* the job's stored status is terminal (never while it is queued or running).
C26_HandlesLiveWhileActive ==
    [][\A j \in JobIds :
          /\ jobs'[j].status \in TerminalStates =>
                j \notin jobSimulations' \cup githubJobTracking'
          /\ (\/ j \in jobSimulations /\ j \notin jobSimulations'
              \/ j \in githubJobTracking /\ j \notin githubJobTracking') =>
                jobs'[j].status \in TerminalStates]_vars

IsPrefix(s, t) == Len(s) <= Len(t) /\ SubSeq(t, 1, Len(s)) = s

\* C27: whenever a write changes the output stored for a job, the output
\* stored before is a prefix of the output stored after.
C27_OutputAppendOnly ==
    [][\A j \in JobIds :
          (jobs[j].status # "none" /\ jobs'[j].output # jobs[j].output) =>
             IsPrefix(OutputLines(jobs[j].output), OutputLines(jobs'[j].output))]_vars

\* C28: no step changes parsed_intent, original_command, user_id or job_type
\* of a row that exists, and the parsed_intent of a 201 answer is the one
\* stored in the row of the job it names.
C28_ParsedIntentFrozen ==
    [][/\ \A j \in JobIds :
             jobs[j].status # "none" =>
                /\ jobs'[j].parsed_intent = jobs[j].parsed_intent
                /\ jobs'[j].original_command = jobs[j].original_command
                /\ jobs'[j].user_id = jobs[j].user_id
                /\ jobs'[j].job_type = jobs[j].job_type
       /\ postRes'.status = 201 =>
             jobs'[postRes'.job].parsed_intent = postRes'.parsed_intent]_vars

\* a job that reached a terminal status with the intent of its 201 answer, the
\* environment of which the handler had normalised
C28_Witness ==
    /\ postRes.status = 201
    /\ jobs[postRes.job].status \in TerminalStates
    /\ jobs[postRes.job].parsed_intent = postRes.parsed_intent
    /\ postRes.parsed_intent # postRes.intent

\* C30: the delay scheduled after failed attempt a is 2000, 4000, 8000 and
\* 16000 ms for a = 1..4 and 30000 ms for every a >= 5; it never exceeds
\* 30000 ms and is not below the delay of any earlier attempt.
C30_ErrorBackoff ==
    backoff.delay # NoDelay =>
       LET a == backoff.attempts
       IN /\ backoff.delay = CASE a = 1 -> 2000
                               [] a = 2 -> 4000
                               [] a = 3 -> 8000
                               [] a = 4 -> 16000
                               [] OTHER -> 30000
          /\ backoff.delay <= 30000
          /\ \A b \in 1..a : errorBackoffDelay(b) <= backoff.delay

\* the delay after a failed attempt past the fifth: the cap applies
C30_Witness == backoff.attempts > 5 /\ backoff.delay = 30000

\* C31: the workflow poller counts at most maxPolls getRun calls for a job;
\* the tick that uses the budget up ends the poller; whenever the poller ends,
\* the githubJobTracking entry is removed and the stored status of the job is
\* terminal.
C31_PollerBoundedAndTerminal ==
    [][\A j \in JobIds :
          /\ ghExec'[j].polls <= maxPolls
          /\ (ghExec[j].pc = "pollTimer" /\ ghExec'[j].polls = maxPolls) =>
                ghExec'[j].pc = "done"
          /\ (ghExec[j].pc = "pollTimer" /\ ghExec'[j].pc = "done") =>
                /\ j \notin githubJobTracking'
                /\ jobs'[j].status \in TerminalStates
                /\ ghExec'[j].polls = maxPolls =>
                      jobs'[j].status = "failed" /\ jobs'[j].error_message]_vars

\* C32: every write of the workflow poller stores one of running, completed,
\* failed, cancelled, and it sets completed_at only together with a terminal
\* status.
C32_PollerWritesNoFalseCompletion ==
    [][\A j \in JobIds :
          (ghExec[j].pc = "pollTimer" /\ jobs'[j] # jobs[j]) =>
             /\ jobs'[j].status \in {"running"} \cup TerminalStates
             /\ jobs'[j].completed_at => jobs'[j].status \in TerminalStates]_vars

\* C33: every created job eventually has a terminal stored status, provided
\* timers fire and remote calls return or fail.
C33_JobsReachTerminal ==
    \A j \in JobIds :
       (jobs[j].status = "queued") ~> (jobs[j].status \in TerminalStates)

\* C34: the executors issue at most one updateJobStatus call with a terminal
\* status per job, and none for a job whose stored status is terminal.
C34_OneTerminalWrite ==
    [][\A j \in JobIds :
          /\ terminalWrites'[j] <= 1
          /\ terminalWrites'[j] > terminalWrites[j] =>
                jobs[j].status \notin TerminalStates]_vars

\* a job whose one terminal write is stored and whose executor is finished
C34_Witness ==
    \E j \in JobIds : /\ terminalWrites[j] = 1
                       /\ jobs[j].status \in TerminalStates
                       /\ \/ ghExec[j].pc = "done"
                          \/ simTimers[j].completionTimeout = "fired" /\ writes = {}

\* C35: every row of the job store has a job_type among the six actions, and
\* a request whose final intent has another action (unknown: no keyword, or a
\* classifier score below the threshold) is answered 400 or 422 with no row
\* created and no executor started.
C35_NoUnknownJobs ==
    /\ \A j \in JobIds : jobs[j].status # "none" => jobs[j].job_type \in Actions
    /\ (postRes.pc = "done" /\ postRes.intent.action \notin Actions) =>
          /\ postRes.status \in {400, 422}
          /\ \A j \in JobIds : /\ jobs[j] = NoRow
                                /\ simTimers[j] = NoTimers
                                /\ ghExec[j] = NoGh
          /\ jobSimulations = {}

\* a command with a deploy keyword whose classifier score fell below the
\* threshold was answered 400
C35_Witness ==
    /\ postRes.pc = "done"
    /\ postReq.command.groups # {}
    /\ postRes.parsed.source = "regex-fallback"
    /\ postRes.intent.action = "unknown"
    /\ postRes.status = 400

\* C36: whenever isProcessingCommand is true, a submission is in flight (its
\* first POST, its slot-fill prompt or its retry POST), or currentJobId is a
\* job in pollingJobs that has a live poll chain.
C36_LockNotOrphaned ==
    isProcessingCommand =>
       \/ \E k \in JobIds : cmds[k].pc \in {"replied", "retried", "prompt"}
       \/ /\ currentJobId # NoJob
          /\ currentJobId \in pollingJobs
          /\ LiveChains(currentJobId) # {}

\* the lock held by a job that is being polled, no submission in flight
C36_Witness ==
    /\ isProcessingCommand
    /\ \A k \in JobIds : cmds[k].pc \notin {"replied", "retried", "prompt"}
    /\ currentJobId \in pollingJobs
    /\ \E c \in LiveChains(currentJobId) : chains[c].attempts >= 1

\* C37: a poll chain that ends while currentJobId is not its job leaves
\* isProcessingCommand and currentJobId as they were and posts no
\* setLoadingState event.
C37_ChainReleasesOwnJobOnly ==
    [][\A c \in ChainIds :
          (/\ chains[c].pc \in {"timer", "fetch"}
           /\ chains'[c] = NoChain
           /\ currentJobId # chains[c].job) =>
             /\ isProcessingCommand' = isProcessingCommand
             /\ currentJobId' = currentJobId
             /\ \A i \in DOMAIN out' : out'[i].command # "setLoadingState"]_vars

\* the chain of an older job has just posted its terminal status and ended
\* while the lock is held for another job
C37_Witness ==
    \E j \in JobIds :
       /\ isProcessingCommand
       /\ currentJobId \notin {NoJob, j}
       /\ LiveChains(j) = {}
       /\ \E t \in TerminalStates : out = <<Ev("updateJobStatus", j, t)>>

\* C38: every job id in pollingJobs has a live poll chain: a pending timer
\* or an in-flight getJobDetails of a chain of that job.
C38_NoLeakedRegistration ==
    \A j \in pollingJobs : LiveChains(j) # {}

\* a registration made after a dispose had emptied the set, while the chain
\* that was outstanding at the dispose is gone
C38_Witness ==
    /\ closes >= 1
    /\ \E j \in pollingJobs :
          /\ LiveChains(j) # {}
          /\ \A c \in ChainIds : ~chains[c].stale

\* the events of one kind among those a turn posted
EventsOf(evs, command) == {i \in DOMAIN evs : evs[i].command = command}

\* the order of a command's events, step by step: the turn that accepts a
\* command posts setLoadingState(true) then showTyping; an addDevResponse is
\* posted alone in its turn, by the turn that ends a pending submission, and
\* a job_created one names that command's job; the turn of a poll chain
\* that posts updateJobStatus for a job comes after the submission of that
\* job's command has ended
C39_OrderStep ==
    /\ \A k \in JobIds :
          (cmds[k].pc = "idle" /\ cmds'[k].pc # "idle") =>
             out' = <<Ev("setLoadingState", NoJob, "true"), Ev("showTyping", NoJob, "none")>>
    /\ Cardinality(EventsOf(out', "addDevResponse")) <= 1
    /\ \A i \in EventsOf(out', "addDevResponse") :
          /\ i = 1
          /\ \E k \in JobIds :
                /\ cmds[k].pc \in {"replied", "retried", "prompt"}
                /\ cmds'[k].pc = "done"
                /\ out'[i].status = "job_created" => out'[i].jobId = k
    /\ \A k \in JobIds :
          (cmds[k].pc \in {"replied", "retried", "prompt"} /\ cmds'[k].pc = "done" /\ panel) =>
             Cardinality(EventsOf(out', "addDevResponse")) = 1
    /\ \A c \in ChainIds :
          (chains[c].pc = "fetch" /\ chains'[c] # chains[c]
             /\ EventsOf(out', "updateJobStatus") # {}) =>
                cmds[chains[c].job].pc = "done"

\* the loading state was switched off by the last turn
LoadingOff == \E i \in DOMAIN out : out[i] = Ev("setLoadingState", NoJob, "false")

====
